---------------------------- MODULE Spec2Model ----------------------------
(***************************************************************************)
(* Dialogue Index Builder (main.py): build_index groups the dialogue logs  *)
(* of the "articles" collection by their UTC+9 calendar date and           *)
(* process_daily_logs merge-writes one "dialogue_index" document per date. *)
(*                                                                         *)
(* Instants are whole hours since 1970-01-01T00:00Z.  Text produced by     *)
(* strftime and by f-strings is a sequence of one-character strings (and   *)
(* literal fragments), so that it can be formatted and parsed again.       *)
(* A Python dict is a function whose DOMAIN is the set of its keys.  The    *)
(* Japanese literals of the source are written in romanised ASCII.         *)
(***************************************************************************)
EXTENDS Integers, Sequences, FiniteSets, TLC

(***************************************************************************)
(* Bounds of the model.                                                    *)
(***************************************************************************)
\* the largest number of dialogue logs the query returns
MaxLogs == 3

\* the concurrent / successive invocations of build_index (POST /)
Invocations == {1, 2}

\* createdAt instants: 2025-07-31T14:00Z (JST 07-31 23:00),
\* 2025-07-31T15:00Z (JST 08-01 00:00), 2025-08-01T14:00Z (JST 08-01 23:00)
Instants == {487214, 487215, 487238}

\* titles a log may carry
Titles == {"t"}

(***************************************************************************)
(* Python values.                                                          *)
(***************************************************************************)
\* None (dict.get of a missing key)
None == [none |-> TRUE]

\* a Firestore timestamp (DatetimeWithNanoseconds) of the given instant
Timestamp(h) == [hours |-> h]

\* Python truthiness of the values createdAt can take: None is falsy, a
\* datetime is always truthy
Truthy(v) == v # None

\* dict.get(key, default)
Get(d, key, default) == IF key \in DOMAIN d THEN d[key] ELSE default

\* d[key] = value on a copy of d
DictSet(d, key, value) ==
    [k \in DOMAIN d \cup {key} |-> IF k = key THEN value ELSE d[k]]

(***************************************************************************)
(* Calendar arithmetic of datetime (proleptic Gregorian calendar).         *)
(***************************************************************************)
\* (year, month, day) of the day that is z days after 1970-01-01
CivilFromDays(z) ==
    LET z2  == z + 719468
        era == z2 \div 146097
        doe == z2 - era * 146097
        yoe == (doe - doe \div 1460 + doe \div 36524 - doe \div 146096) \div 365
        doy == doe - (365 * yoe + yoe \div 4 - yoe \div 100)
        mp  == (5 * doy + 2) \div 153
        d   == doy - (153 * mp + 2) \div 5 + 1
        m   == IF mp < 10 THEN mp + 3 ELSE mp - 9
        y   == yoe + era * 400 + (IF m <= 2 THEN 1 ELSE 0)
    IN  <<y, m, d>>

\* days from 1970-01-01 to the civil date y-m-d
DaysFromCivil(y, m, d) ==
    LET y2  == IF m <= 2 THEN y - 1 ELSE y
        era == y2 \div 400
        yoe == y2 - era * 400
        mp  == IF m > 2 THEN m - 3 ELSE m + 9
        doy == (153 * mp + 2) \div 5 + d - 1
        doe == yoe * 365 + yoe \div 4 - yoe \div 100 + doy
    IN  era * 146097 + doe - 719468

(***************************************************************************)
(* Text: decimal formatting and parsing.                                   *)
(***************************************************************************)
DigitChars == <<"0", "1", "2", "3", "4", "5", "6", "7", "8", "9">>

\* the digit a character stands for
DigitValue(c) == (CHOOSE i \in 1..10 : DigitChars[i] = c) - 1

\* n (>= 0) in decimal, zero-padded to at least width characters
RECURSIVE Padded(_, _)
Padded(n, width) ==
    IF n < 10 /\ width <= 1
    THEN <<DigitChars[n + 1]>>
    ELSE Padded(n \div 10, width - 1) \o <<DigitChars[(n % 10) + 1]>>

\* str(n) as an f-string renders it
Str(n) == Padded(n, 1)

\* int(s) of a sequence of digit characters
RECURSIVE ParseInt(_)
ParseInt(s) ==
    IF s = <<>> THEN 0
    ELSE 10 * ParseInt(SubSeq(s, 1, Len(s) - 1)) + DigitValue(s[Len(s)])

\* the fixed offset of timezone(timedelta(hours=9))
JstOffsetHours == 9

\* wall-clock hours (since the epoch) of an instant in the zone of the given
\* offset: datetime.astimezone(timezone(timedelta(hours=offset)))
Astimezone(ts, offset) == ts.hours + offset

\* strftime("%Y-%m-%d") of wall-clock hours
Strftime(wall) ==
    LET ymd == CivilFromDays(wall \div 24)
    IN  Padded(ymd[1], 4) \o <<"-">> \o Padded(ymd[2], 2) \o <<"-">>
            \o Padded(ymd[3], 2)

\* datetime.strptime(s, "%Y-%m-%d").replace(tzinfo=timezone.utc): the instant
\* of UTC midnight of the civil date s
StrptimeUtc(s) ==
    Timestamp(24 * DaysFromCivil(ParseInt(SubSeq(s, 1, 4)),
                                 ParseInt(SubSeq(s, 6, 7)),
                                 ParseInt(SubSeq(s, 9, 10))))

\* variant: the date is taken in UTC, the offset of line 54 left out
JstDateStrUtc(created_at_dt) == Strftime(Astimezone(created_at_dt, 0))

\* the JST date string of a createdAt value (main.py lines 53-55)
JstDateStr(created_at_dt) == Strftime(Astimezone(created_at_dt, JstOffsetHours))


(***************************************************************************)
(* The store.                                                              *)
(***************************************************************************)
\* the identifier the store assigned to the i-th log of the query result
LogId(i) == "a" \o ToString(i)

\* the field maps (to_dict) a dialogue log can have: createdAt and title are
\* each present or absent
LogDicts ==
    LET Mk(cs, ts) ==
            [k \in (IF cs = <<>> THEN {} ELSE {"createdAt"})
                   \cup (IF ts = <<>> THEN {} ELSE {"title"})
               |-> IF k = "createdAt" THEN cs[1] ELSE ts[1]]
    IN  {Mk(cs, ts) : cs \in {<<>>} \cup {<<Timestamp(h)>> : h \in Instants},
                      ts \in {<<>>} \cup {<<t>> : t \in Titles}}

\* the results the query on "articles" can stream: document snapshots in the
\* store's default order, each with its id and its field map
QueryResults ==
    UNION {{[i \in 1..n |-> [id |-> LogId(i), data |-> f[i]]] :
                f \in [1..n -> LogDicts]} : n \in 0..MaxLogs}

\* a date no log of Instants falls on, and one a log can fall on
StaleDate == <<"2", "0", "2", "5", "-", "0", "7", "-", "3", "0">>
LiveDate == <<"2", "0", "2", "5", "-", "0", "8", "-", "0", "1">>

\* an index document written earlier, later enriched with a field of its own
EnrichedDoc(date_str) ==
    [f \in {"date", "dailySummary", "timeChunks", "updatedAt", "memo"} |->
        CASE f = "date" -> StrptimeUtc(date_str)
          [] f = "dailySummary" -> <<"old">>
          [] f = "timeChunks" -> <<>>
          [] f = "updatedAt" -> [serverTime |-> 0]
          [] f = "memo" -> "keep"]

\* the contents "dialogue_index" can have before the first invocation
InitialIndexes ==
    { [d \in {} |-> <<>>],
      [d \in {StaleDate, LiveDate} |-> EnrichedDoc(d)] }

\* the firestore.SERVER_TIMESTAMP sentinel, written under "updatedAt" (line 128)
SERVER_TIMESTAMP == [sentinel |-> "SERVER_TIMESTAMP"]

\* variant: the merge flag is ignored and the document replaced
DocumentSetOverwrite(coll, id, data, merge, now) ==
    LET resolved == [k \in DOMAIN data |->
                        IF k = "updatedAt" THEN [serverTime |-> now] ELSE data[k]]
    IN  [d \in DOMAIN coll \cup {id} |-> IF d = id THEN resolved ELSE coll[d]]

\* variant: a merge appends a written array to the stored one
DocumentSetAppendArrays(coll, id, data, merge, now) ==
    LET resolved == [k \in DOMAIN data |->
                        IF k = "updatedAt" THEN [serverTime |-> now] ELSE data[k]]
        old      == IF merge /\ id \in DOMAIN coll THEN coll[id] ELSE <<>>
        merged   == [k \in DOMAIN old \cup DOMAIN resolved |->
                        IF k \notin DOMAIN resolved THEN old[k]
                        ELSE IF k = "timeChunks" /\ k \in DOMAIN old
                             THEN old[k] \o resolved[k]
                             ELSE resolved[k]]
    IN  [d \in DOMAIN coll \cup {id} |-> IF d = id THEN merged ELSE coll[d]]

\* DocumentReference.set(data, merge) on collection coll at server time now:
\* the sentinel fields take the server's time; with merge the fields that data
\* does not name keep their stored values, without it the document is replaced
DocumentSet(coll, id, data, merge, now) ==
    LET resolved == [k \in DOMAIN data |->
                        IF k = "updatedAt" THEN [serverTime |-> now] ELSE data[k]]
        old      == IF merge /\ id \in DOMAIN coll THEN coll[id] ELSE <<>>
        merged   == [k \in DOMAIN old \cup DOMAIN resolved |->
                        IF k \in DOMAIN resolved THEN resolved[k] ELSE old[k]]
    IN  [d \in DOMAIN coll \cup {id} |-> IF d = id THEN merged ELSE coll[d]]

(***************************************************************************)
(* process_daily_logs: the aggregate of one date.                          *)
(***************************************************************************)
\* the templated daily summary (lines 97-99)
DailySummary(date_str, logs) ==
    date_str \o <<" no taiwa youyaku. kono hi wa ">> \o Str(Len(logs))
             \o <<" ken no taiwa kiroku ga arimashita.">>

\* variant: the last log of the bucket is taken
LastLog(logs) == logs[Len(logs)]

\* the representative log of the bucket (line 104)
FirstLog(logs) == logs[1]

\* the single placeholder chunk (lines 102-121)
TimeChunks(logs) ==
    LET first_log == FirstLog(logs)
    IN  << [startTime    |-> "10:00",
            endTime      |-> "12:59",
            chunkSummary |-> "AI shisho no sekkei ni kansuru giron",
            categories   |-> <<"system sekkei", "backend">>,
            tags         |-> <<"Cloud Run", "Firestore", "API sekkei">>,
            keyMoments   |->
               << [topic        |-> "saisho no key moment no topic",
                   timestamp    |-> "10:15",
                   articleId    |-> Get(first_log, "id", ""),
                   articleTitle |-> Get(first_log, "title", "mudai no taiwa log")] >>] >>

\* index_doc_data (lines 124-129)
IndexDocData(date_str, logs) ==
    [f \in {"date", "dailySummary", "timeChunks", "updatedAt"} |->
        CASE f = "date" -> StrptimeUtc(date_str)
          [] f = "dailySummary" -> DailySummary(date_str, logs)
          [] f = "timeChunks" -> TimeChunks(logs)
          [] f = "updatedAt" -> SERVER_TIMESTAMP]

(***************************************************************************)
(* build_index: the grouping of one streamed log (lines 45-62).            *)
(***************************************************************************)
\* position of key in the insertion-ordered dict, 0 when it is not a key
KeyIndex(dict, key) ==
    IF \E i \in 1..Len(dict) : dict[i].key = key
    THEN CHOOSE i \in 1..Len(dict) : dict[i].key = key
    ELSE 0

\* variant: a log without createdAt is not skipped but dated at the epoch
GroupLogNoSkip(dict, log) ==
    LET log_data      == log.data
        created_at_dt == Get(log_data, "createdAt", Timestamp(0))
        jst_date_str  == JstDateStr(created_at_dt)
        with_key      == IF KeyIndex(dict, jst_date_str) = 0
                         THEN Append(dict, [key |-> jst_date_str, value |-> <<>>])
                         ELSE dict
        i             == KeyIndex(with_key, jst_date_str)
        entry         == DictSet(log_data, "id", log.id)
    IN  [with_key EXCEPT ![i].value = Append(@, entry)]

\* logs_by_date after the loop body has run on the snapshot log
GroupLog(dict, log) ==
    LET log_data      == log.data
        created_at_dt == Get(log_data, "createdAt", None)
    IN  IF ~Truthy(created_at_dt)
        THEN dict
        ELSE LET jst_date_str == JstDateStr(created_at_dt)
                 with_key == IF KeyIndex(dict, jst_date_str) = 0
                             THEN Append(dict, [key |-> jst_date_str, value |-> <<>>])
                             ELSE dict
                 i        == KeyIndex(with_key, jst_date_str)
                 entry    == DictSet(log_data, "id", log.id)
             IN  [with_key EXCEPT ![i].value = Append(@, entry)]

\* the success and the failure response (lines 70-78, 82)
SuccessResponse(n) ==
    [code |-> 200,
     body |-> [status  |-> "success",
               message |-> Str(n) \o <<" nichi-bun no index wo koushin shimashita.">>]]

ErrorResponse ==
    [code |-> 500,
     body |-> [status |-> "error", message |-> <<"Internal Server Error">>]]

NoResponse == [code |-> 0]

(***************************************************************************)
(* State.                                                                  *)
(***************************************************************************)
VARIABLES
    articles,       \* the result of the DIALOGUE_LOG query; the logs do not change
    indexDocs,      \* collection "dialogue_index": document id -> field map
    serverTime,     \* the store's clock: the number of writes it has applied
    pc,             \* per invocation: "idle", "fetching", "processing", "responded"
    stream,         \* per invocation: position of the next log the stream yields
    logs_by_date,   \* per invocation: the insertion-ordered dict of date buckets
    dateIdx,        \* per invocation: position of the items() iteration
    response,       \* per invocation: the (body, status code) returned
    writes,         \* per invocation: ids of the set() calls it completed, in order
    raised,         \* per invocation: the call that raised: "none", "stream", "set"
    afterFirstRun   \* <<index view>> once a run succeeded before any other began

vars == <<articles, indexDocs, serverTime, pc, stream, logs_by_date, dateIdx,
          response, writes, raised, afterFirstRun>>

\* the fields of every index document that process_daily_logs derives from
\* the logs (everything it writes but updatedAt)
IndexView(docs) ==
    [d \in DOMAIN docs |->
        [f \in DOMAIN docs[d] \cap {"date", "dailySummary", "timeChunks"} |->
            docs[d][f]]]

Init ==
    /\ articles \in QueryResults
    /\ indexDocs \in InitialIndexes
    /\ serverTime = 0
    /\ pc = [p \in Invocations |-> "idle"]
    /\ stream = [p \in Invocations |-> 1]
    /\ logs_by_date = [p \in Invocations |-> <<>>]
    /\ dateIdx = [p \in Invocations |-> 1]
    /\ response = [p \in Invocations |-> NoResponse]
    /\ writes = [p \in Invocations |-> <<>>]
    /\ raised = [p \in Invocations |-> "none"]
    /\ afterFirstRun = <<>>

(***************************************************************************)
(* build_index.                                                            *)
(***************************************************************************)
\* POST /: the query is built and logs_by_date is the empty dict (lines 30-44)
Request(p) ==
    /\ pc[p] = "idle"
    /\ pc' = [pc EXCEPT ![p] = "fetching"]
    /\ UNCHANGED <<articles, indexDocs, serverTime, stream, logs_by_date,
                   dateIdx, response, writes, raised, afterFirstRun>>

\* variant: the document of a log's date is written as soon as the log is
\* grouped, while the stream is still being read
StreamYieldEager(p) ==
    /\ pc[p] = "fetching"
    /\ stream[p] <= Len(articles)
    /\ LET dict == GroupLog(logs_by_date[p], articles[stream[p]])
       IN  /\ logs_by_date' = [logs_by_date EXCEPT ![p] = dict]
           /\ IF dict = logs_by_date[p]
              THEN UNCHANGED <<indexDocs, serverTime, writes>>
              ELSE LET date_str == JstDateStr(articles[stream[p]].data.createdAt)
                       logs     == dict[KeyIndex(dict, date_str)].value
                   IN  /\ indexDocs' = DocumentSet(indexDocs, date_str,
                                                   IndexDocData(date_str, logs),
                                                   TRUE, serverTime + 1)
                       /\ serverTime' = serverTime + 1
                       /\ writes' = [writes EXCEPT ![p] = Append(@, date_str)]
    /\ stream' = [stream EXCEPT ![p] = @ + 1]
    /\ UNCHANGED <<articles, pc, dateIdx, response, raised, afterFirstRun>>

\* the stream yields the next log and the loop body groups it (lines 45-62)
StreamYield(p) ==
    /\ pc[p] = "fetching"
    /\ stream[p] <= Len(articles)
    /\ logs_by_date' =
          [logs_by_date EXCEPT ![p] = GroupLog(@, articles[stream[p]])]
    /\ stream' = [stream EXCEPT ![p] = @ + 1]
    /\ UNCHANGED <<articles, indexDocs, serverTime, pc, dateIdx, response,
                   writes, raised, afterFirstRun>>

\* the query or the stream raises, at its start or part-way: the handler of
\* line 80 answers 500 (lines 80-82)
StreamRaise(p) ==
    /\ pc[p] = "fetching"
    /\ pc' = [pc EXCEPT ![p] = "responded"]
    /\ raised' = [raised EXCEPT ![p] = "stream"]
    /\ response' = [response EXCEPT ![p] = ErrorResponse]
    /\ UNCHANGED <<articles, indexDocs, serverTime, stream, logs_by_date,
                   dateIdx, writes, afterFirstRun>>

\* the stream is exhausted: the loop ends and the iteration over
\* logs_by_date.items() starts (lines 64-67)
StreamEnd(p) ==
    /\ pc[p] = "fetching"
    /\ stream[p] > Len(articles)
    /\ pc' = [pc EXCEPT ![p] = "processing"]
    /\ UNCHANGED <<articles, indexDocs, serverTime, stream, logs_by_date,
                   dateIdx, response, writes, raised, afterFirstRun>>

\* variant: the new chunk is appended to the chunks read from the stored
\* document instead of replacing them
process_daily_logs_appending(p) ==
    /\ pc[p] = "processing"
    /\ dateIdx[p] <= Len(logs_by_date[p])
    /\ LET date_str == logs_by_date[p][dateIdx[p]].key
           logs     == logs_by_date[p][dateIdx[p]].value
           stored   == IF date_str \in DOMAIN indexDocs
                       THEN Get(indexDocs[date_str], "timeChunks", <<>>)
                       ELSE <<>>
           data     == [IndexDocData(date_str, logs) EXCEPT
                           !["timeChunks"] = stored \o @]
       IN  /\ indexDocs' = DocumentSet(indexDocs, date_str, data, TRUE,
                                       serverTime + 1)
           /\ writes' = [writes EXCEPT ![p] = Append(@, date_str)]
    /\ serverTime' = serverTime + 1
    /\ dateIdx' = [dateIdx EXCEPT ![p] = @ + 1]
    /\ UNCHANGED <<articles, pc, stream, logs_by_date, response, raised,
                   afterFirstRun>>

\* process_daily_logs(date_str, logs) for the next item, its set() succeeding
\* (lines 67-68, 85-135)
process_daily_logs(p) ==
    /\ pc[p] = "processing"
    /\ dateIdx[p] <= Len(logs_by_date[p])
    /\ LET date_str == logs_by_date[p][dateIdx[p]].key
           logs     == logs_by_date[p][dateIdx[p]].value
       IN  /\ indexDocs' = DocumentSet(indexDocs, date_str,
                                       IndexDocData(date_str, logs), TRUE,
                                       serverTime + 1)
           /\ writes' = [writes EXCEPT ![p] = Append(@, date_str)]
    /\ serverTime' = serverTime + 1
    /\ dateIdx' = [dateIdx EXCEPT ![p] = @ + 1]
    /\ UNCHANGED <<articles, pc, stream, logs_by_date, response, raised,
                   afterFirstRun>>

\* process_daily_logs for the next item, its set() raising: nothing in
\* process_daily_logs or in the loop of line 67 catches, so the handler of
\* line 80 answers 500 and the remaining items are not iterated
SetRaise(p) ==
    /\ pc[p] = "processing"
    /\ dateIdx[p] <= Len(logs_by_date[p])
    /\ pc' = [pc EXCEPT ![p] = "responded"]
    /\ raised' = [raised EXCEPT ![p] = "set"]
    /\ response' = [response EXCEPT ![p] = ErrorResponse]
    /\ UNCHANGED <<articles, indexDocs, serverTime, stream, logs_by_date,
                   dateIdx, writes, afterFirstRun>>

\* variant: the logs are counted instead of the days
IndexedCountLogs(dict) ==
    Cardinality({<<b, j>> \in (1..Len(dict)) \X (1..MaxLogs + 1) :
                    j <= Len(dict[b].value)})

\* the number of days the success message reports (line 74)
IndexedCount(dict) == Len(dict)

\* every item was processed: the success response (lines 70-78)
Respond(p) ==
    /\ pc[p] = "processing"
    /\ dateIdx[p] > Len(logs_by_date[p])
    /\ pc' = [pc EXCEPT ![p] = "responded"]
    /\ response' = [response EXCEPT ![p] =
                        SuccessResponse(IndexedCount(logs_by_date[p]))]
    /\ afterFirstRun' =
          IF afterFirstRun = <<>> /\ \A q \in Invocations \ {p} : pc[q] = "idle"
          THEN <<IndexView(indexDocs)>>
          ELSE afterFirstRun
    /\ UNCHANGED <<articles, indexDocs, serverTime, stream, logs_by_date,
                   dateIdx, writes, raised>>

\* invocations are not coordinated: any of them takes its next step
Next ==
    \E p \in Invocations :
        \/ Request(p)
        \/ StreamYield(p)
        \/ StreamRaise(p)
        \/ StreamEnd(p)
        \/ process_daily_logs(p)
        \/ SetRaise(p)
        \/ Respond(p)

Spec == Init /\ [][Next]_vars

\* p is the first invocation
First(p) == \A q \in Invocations : p <= q

\* one request only: the first invocation runs alone
NextSingle ==
    \E p \in Invocations :
        \/ First(p) /\ Request(p)
        \/ First(p) /\ StreamYield(p)
        \/ First(p) /\ StreamRaise(p)
        \/ First(p) /\ StreamEnd(p)
        \/ First(p) /\ process_daily_logs(p)
        \/ First(p) /\ SetRaise(p)
        \/ First(p) /\ Respond(p)

SpecSingle == Init /\ [][NextSingle]_vars

(***************************************************************************)
(* Vocabulary of the properties.                                           *)
(***************************************************************************)
Range(seq) == {seq[i] : i \in 1..Len(seq)}

\* the i-th fetched log has a createdAt value
Timestamped(i) == "createdAt" \in DOMAIN articles[i].data

\* date_str has the shape YYYY-MM-DD
IsDateStr(date_str) ==
    /\ Len(date_str) = 10
    /\ date_str[5] = "-" /\ date_str[8] = "-"
    /\ \A i \in {1, 2, 3, 4, 6, 7, 9, 10} :
          \E k \in 1..10 : DigitChars[k] = date_str[i]

\* the fetch positions of the timestamped logs whose instant lies in the UTC+9
\* calendar day date_str: from 9 hours before the UTC midnight of that date
\* to 15 hours after it
LogsOfDay(date_str) ==
    LET midnight == StrptimeUtc(date_str).hours
    IN  {i \in 1..Len(articles) :
            /\ Timestamped(i)
            /\ midnight - 9 <= articles[i].data.createdAt.hours
            /\ articles[i].data.createdAt.hours < midnight + 15}

\* the places <<bucket, position>> of invocation p's buckets that hold the log id
PlacesOf(p, id) ==
    {<<b, j>> \in (1..Len(logs_by_date[p])) \X (1..MaxLogs + 1) :
        /\ j <= Len(logs_by_date[p][b].value)
        /\ logs_by_date[p][b].value[j].id = id}

\* invocation p has answered 200
Succeeded(p) == pc[p] = "responded" /\ response[p].code = 200

\* C3: every log with a createdAt that the stream has yielded is in exactly one
\* bucket, once, and that bucket's key is the YYYY-MM-DD date of the UTC+9 day
\* the instant lies in; no two buckets share a key
GroupingCorrect ==
    \A p \in Invocations :
        /\ \A b1, b2 \in 1..Len(logs_by_date[p]) :
              logs_by_date[p][b1].key = logs_by_date[p][b2].key => b1 = b2
        /\ \A b \in 1..Len(logs_by_date[p]) :
              IsDateStr(logs_by_date[p][b].key)
        /\ \A i \in 1..(stream[p] - 1) :
              Timestamped(i) =>
                 LET places == PlacesOf(p, articles[i].id)
                 IN  /\ Cardinality(places) = 1
                     /\ \A pl \in places :
                           i \in LogsOfDay(logs_by_date[p][pl[1]].key)

\* the grouping loop has ended over three logs: 14:00Z and 15:00Z of 07-31 lie
\* in different buckets, 15:00Z of 07-31 and 14:00Z of 08-01 in the same one
GroupingWitness ==
    \E p \in Invocations :
        /\ pc[p] = "processing"
        /\ Len(articles) = 3
        /\ \A i \in 1..3 : Timestamped(i)
        /\ articles[1].data.createdAt.hours = 487214
        /\ articles[2].data.createdAt.hours = 487215
        /\ articles[3].data.createdAt.hours = 487238
        /\ Len(logs_by_date[p]) = 2
        /\ logs_by_date[p][2].key = LiveDate
        /\ Len(logs_by_date[p][2].value) = 2

\* the key moments of every time chunk of the stored document doc
KeyMomentsOf(doc) ==
    IF "timeChunks" \in DOMAIN doc
    THEN UNION {Range(doc.timeChunks[c].keyMoments) :
                    c \in 1..Len(doc.timeChunks)}
    ELSE {}

\* the daily summary the template gives for date_str and n logs
SummaryText(date_str, n) ==
    date_str \o <<" no taiwa youyaku. kono hi wa ">> \o Str(n)
             \o <<" ken no taiwa kiroku ga arimashita.">>

\* the date keys some invocation has written
Written == UNION {Range(writes[p]) : p \in Invocations}

\* C4: a fetched log without createdAt is in no bucket, is counted in no
\* written dailySummary, is referenced by no key moment, has no document
\* written for it, and does not make the run fail: a run in which no store
\* call raised answers 200 having written the date of every timestamped log
Exclusion ==
    /\ \A i \in 1..Len(articles) :
          ~Timestamped(i) =>
             /\ \A p \in Invocations : PlacesOf(p, articles[i].id) = {}
             /\ \A d \in DOMAIN indexDocs :
                   \A km \in KeyMomentsOf(indexDocs[d]) :
                       km.articleId # articles[i].id
    /\ \A d \in Written :
          LET logs == LogsOfDay(d)
          IN  /\ logs # {}
              /\ indexDocs[d].dailySummary = SummaryText(d, Cardinality(logs))
    /\ \A p \in Invocations :
          pc[p] = "responded" /\ raised[p] = "none" =>
             /\ response[p].code = 200
             /\ {i \in 1..Len(articles) : Timestamped(i)}
                   = UNION {LogsOfDay(d) : d \in Range(writes[p])}

\* a log without createdAt was fetched before and after a timestamped one and
\* the run answered 200 having written that one date only
ExclusionWitness ==
    \E p \in Invocations :
        /\ Succeeded(p)
        /\ Len(articles) = 3
        /\ ~Timestamped(1) /\ Timestamped(2) /\ ~Timestamped(3)
        /\ Len(writes[p]) = 1
        /\ indexDocs[writes[p][1]].dailySummary = SummaryText(writes[p][1], 1)

\* C8: the logs of a bucket are in fetch order, and a written document has
\* exactly one time chunk with exactly one key moment, whose articleId is the
\* id of the earliest-fetched timestamped log of that date and whose
\* articleTitle is that log's title, or the default title if it has none
RepresentativeIsFirst ==
    /\ \A p \in Invocations :
          \A b \in 1..Len(logs_by_date[p]) :
              \A j, k \in 1..Len(logs_by_date[p][b].value) :
                  j < k =>
                     \E m, n \in 1..Len(articles) :
                         /\ m < n
                         /\ articles[m].id = logs_by_date[p][b].value[j].id
                         /\ articles[n].id = logs_by_date[p][b].value[k].id
    /\ \A d \in Written :
          LET doc   == indexDocs[d]
              logs  == LogsOfDay(d)
              first == CHOOSE i \in logs : \A j \in logs : i <= j
          IN  /\ Len(doc.timeChunks) = 1
              /\ Len(doc.timeChunks[1].keyMoments) = 1
              /\ doc.timeChunks[1].keyMoments[1].articleId = articles[first].id
              /\ doc.timeChunks[1].keyMoments[1].articleTitle =
                    IF "title" \in DOMAIN articles[first].data
                    THEN articles[first].data.title
                    ELSE "mudai no taiwa log"

\* a date with three logs, the first untitled and the later ones titled, was
\* written: its key moment names the first log and the default title
RepresentativeWitness ==
    \E d \in Written :
        /\ LogsOfDay(d) = {1, 2, 3}
        /\ "title" \notin DOMAIN articles[1].data
        /\ "title" \in DOMAIN articles[2].data
        /\ "title" \in DOMAIN articles[3].data
        /\ indexDocs[d].timeChunks[1].keyMoments[1].articleId = "a1"
        /\ indexDocs[d].timeChunks[1].keyMoments[1].articleTitle =
              "mudai no taiwa log"

\* the success message for N days
SuccessMessage(n) == Str(n) \o <<" nichi-bun no index wo koushin shimashita.">>

\* C9: an invocation that answers success has completed exactly one set() per
\* date bucket, under that bucket's key and under no other, and reports the
\* number of buckets; with no timestamped log it writes nothing and reports 0
WritesMatchBuckets ==
    \A p \in Invocations :
        Succeeded(p) =>
           /\ response[p].body.status = "success"
           /\ Len(writes[p]) = Len(logs_by_date[p])
           /\ \A b \in 1..Len(logs_by_date[p]) :
                 Cardinality({w \in 1..Len(writes[p]) :
                                 writes[p][w] = logs_by_date[p][b].key}) = 1
           /\ Range(writes[p]) = {logs_by_date[p][b].key :
                                     b \in 1..Len(logs_by_date[p])}
           /\ response[p].body.message = SuccessMessage(Len(logs_by_date[p]))
           /\ ((\A i \in 1..Len(articles) : ~Timestamped(i)) =>
                  /\ writes[p] = <<>>
                  /\ response[p].body.message = SuccessMessage(0))

\* a run over three logs on two dates answered success: two writes, N = 2
WritesMatchWitness ==
    \E p \in Invocations :
        /\ Succeeded(p)
        /\ Len(articles) = 3
        /\ \A i \in 1..3 : Timestamped(i)
        /\ Len(logs_by_date[p]) = 2
        /\ Len(writes[p]) = 2
        /\ response[p].body.message = SuccessMessage(2)

\* C5: once a run has answered success before any other run began, a later
\* run over the same logs leaves date, dailySummary and timeChunks of every
\* index document as that first run left them (and creates no document)
RebuildIdempotent ==
    afterFirstRun # <<>> => IndexView(indexDocs) = afterFirstRun[1]

\* two successive successful runs over three logs on two dates: the second run
\* rewrote both documents (their updatedAt is that of writes 3 and 4)
RebuildWitness ==
    /\ afterFirstRun # <<>>
    /\ \A p \in Invocations : Succeeded(p) /\ Len(writes[p]) = 2
    /\ Len(articles) = 3
    /\ serverTime = 4
    /\ {indexDocs[d].updatedAt.serverTime : d \in Written} = {3, 4}

\* the fields process_daily_logs writes
PipelineFields == {"date", "dailySummary", "timeChunks", "updatedAt"}

\* C6: no step removes an index document or removes or changes a field of it
\* other than date, dailySummary, timeChunks and updatedAt, and a step that is
\* not a completed set() on a document's id leaves that document as it is
MergeSafety ==
    [][\A d \in DOMAIN indexDocs :
          /\ d \in DOMAIN indexDocs'
          /\ \A f \in DOMAIN indexDocs[d] \ PipelineFields :
                /\ f \in DOMAIN indexDocs'[d]
                /\ indexDocs'[d][f] = indexDocs[d][f]
          /\ (\A p \in Invocations :
                 \/ writes'[p] = writes[p]
                 \/ writes'[p][Len(writes'[p])] # d)
             => indexDocs'[d] = indexDocs[d]]_vars

\* both runs rewrote the enriched document of 2025-08-01: it has the new
\* summary and still its memo, and the document of 2025-07-30 is untouched
MergeWitness ==
    /\ \A p \in Invocations : Succeeded(p) /\ LiveDate \in Range(writes[p])
    /\ LiveDate \in DOMAIN indexDocs
    /\ indexDocs[LiveDate].dailySummary # <<"old">>
    /\ indexDocs[LiveDate].updatedAt.serverTime > 1
    /\ "memo" \in DOMAIN indexDocs[LiveDate]
    /\ indexDocs[LiveDate].memo = "keep"
    /\ indexDocs[StaleDate] = EnrichedDoc(StaleDate)

\* logs_by_date of a run that consumes the first n logs
RECURSIVE GroupAll(_)
GroupAll(n) == IF n = 0 THEN <<>> ELSE GroupLog(GroupAll(n - 1), articles[n])

\* the index a single successful run alone leaves, started on the index docs
RECURSIVE RunAlone(_, _, _)
RunAlone(docs, dict, b) ==
    IF b > Len(dict) THEN docs
    ELSE RunAlone(DocumentSet(docs, dict[b].key,
                              IndexDocData(dict[b].key, dict[b].value), TRUE, b),
                  dict, b + 1)

\* C7: when all the invocations have answered success, however their writes
\* interleaved, date, dailySummary and timeChunks of every index document are
\* those a single run alone leaves (on the index the invocations started on)
ConcurrentConverge ==
    (\A p \in Invocations : Succeeded(p)) =>
        \E init \in InitialIndexes :
            IndexView(indexDocs) =
                IndexView(RunAlone(init, GroupAll(Len(articles)), 1))

\* two runs over three logs on two dates overlapped: neither had answered when
\* the other began, and their writes alternated (the first date's document
\* was last written by write 2, the second date's by write 4)
ConvergeWitness ==
    /\ \A p \in Invocations : Succeeded(p) /\ Len(writes[p]) = 2
    /\ afterFirstRun = <<>>
    /\ Len(articles) = 3
    /\ serverTime = 4
    /\ indexDocs[writes[1][1]].updatedAt.serverTime = 2
    /\ indexDocs[writes[1][2]].updatedAt.serverTime = 4

\* C10: an invocation completes no set() before its stream is exhausted, and
\* one that the stream's error ended has written nothing, answers 500 with
\* the generic payload and, if no other invocation has begun, leaves the index
\* as it was
FetchBeforeWrite ==
    \A p \in Invocations :
        /\ pc[p] \in {"idle", "fetching"} => writes[p] = <<>>
        /\ writes[p] # <<>> => stream[p] > Len(articles)
        /\ raised[p] = "stream" =>
              /\ writes[p] = <<>>
              /\ pc[p] = "responded"
              /\ response[p] = ErrorResponse
              /\ response[p].code = 500
              /\ ((\A q \in Invocations \ {p} : pc[q] = "idle") =>
                     indexDocs \in InitialIndexes /\ serverTime = 0)

\* one invocation was ended by the stream's error after two of three logs and
\* wrote nothing; the other was ended by the error of its second set():
\* the first date's document is written, the second date's is not
FetchBeforeWriteWitness ==
    \E p, q \in Invocations :
        /\ Len(articles) = 3
        /\ raised[p] = "stream" /\ stream[p] = 3 /\ writes[p] = <<>>
        /\ raised[q] = "set" /\ response[q].code = 500
        /\ Len(logs_by_date[q]) = 2 /\ dateIdx[q] = 2 /\ Len(writes[q]) = 1
        /\ DOMAIN indexDocs = {logs_by_date[q][1].key}

\* C1 as stated: when the set() for one date fails, the document of every
\* other date of the grouping is still written in that invocation
IsolationClaim ==
    \A p \in Invocations :
        pc[p] = "responded" /\ raised[p] = "set" =>
            \A b \in 1..Len(logs_by_date[p]) :
                b # dateIdx[p] => logs_by_date[p][b].key \in Range(writes[p])

\* C2 as stated: an invocation whose fetch and grouping completed answers 200
\* "success" with a count that leaves out the failed dates, and 500 is
\* answered only when the fetch/group phase aborted
PartialSuccessClaim ==
    \A p \in Invocations :
        pc[p] = "responded" =>
            /\ raised[p] # "stream" =>
                  /\ response[p].code = 200
                  /\ response[p].body.status = "success"
                  /\ response[p].body.message =
                        SuccessMessage(Len(logs_by_date[p])
                                       - (IF raised[p] = "set" THEN 1 ELSE 0))
            /\ response[p].code = 500 => raised[p] = "stream"

=============================================================================
